---- MODULE Spec2Model ----
(***************************************************************************)
(* Download-and-cache engine of wsl-tmux-nvim-setup:                       *)
(*   cli/utils/network_resilience.py  NetworkResilientDownloader           *)
(*   cli/utils/download.py            DownloadManager (fallback path)      *)
(*                                                                         *)
(* Files are byte sequences, the clock is a counter that advances at every *)
(* step that reads datetime.now(), a digest is an injective encoding of    *)
(* the hashed bytes as a lowercase hex string.  Every HTTP request and     *)
(* every disk operation that the code guards is answered by the            *)
(* environment: each action draws the answer from the outcomes a server or *)
(* a disk can produce.                                                     *)
(***************************************************************************)
EXTENDS Integers, Sequences, FiniteSets, TLC

VARIABLES
    use_enhanced_network, \* DownloadManager.use_enhanced_network
    offline_mode,    \* NetworkResilientDownloader.offline_mode
    max_cache_size,  \* NetworkResilientDownloader.max_cache_size
    cache_entries,   \* self.cache_entries: url -> CacheEntry (a dict: the domain varies)
    cache_files,     \* disk: the cache file of each url (path = sha256(url))
    index_file,      \* disk: cache_index.json, the entries last saved
    dest_files,      \* disk: the file at each task destination
    mirrors,         \* self.mirrors: name -> Mirror
    stats,           \* self.stats
    now,             \* datetime.now()
    thr,             \* per thread: the frame of its download_file call
    calls,           \* download_file invocations started so far
    prev,            \* summary of the last download_file call that returned
    dm               \* the frame of a download_multiple call

vars == <<use_enhanced_network, offline_mode,
          max_cache_size, cache_entries, cache_files, index_file,
          dest_files, mirrors, stats, now, thr, calls, prev, dm>>

-----------------------------------------------------------------------------
(* Bounds *)

MaxCalls == 2      \* download_file calls made by the caller in one behaviour
MaxRetries == 1    \* task.max_retries of the submitted tasks
ResLen == 2        \* length in bytes of a remote resource
MaxConcurrent == 2      \* number of tasks handed to download_multiple

(* Program constants *)

CleanupEvery == 10     \* periodic cleanup: len(self.cache_entries) % 10 == 0
BestMirrorCount == 3   \* get_best_mirrors(count=3)

-----------------------------------------------------------------------------
(* Data *)

TaskUrls == {1, 2}
\* Entries of earlier runs of the program, loaded from cache_index.json.
BackgroundUrls == 11..(10 + CleanupEvery - 1)
Urls == TaskUrls \cup BackgroundUrls

Min(a, b) == IF a < b THEN a ELSE b

\* The body a stable origin serves for url u: every byte differs.
Resource(u) == [i \in 1..ResLen |-> 10 * u + i]
\* The body of a response that is not 200/206 (an error page).
ErrBody == <<0>>

Missing == [exists |-> FALSE, data |-> <<>>]
File(d) == [exists |-> TRUE, data |-> d]
Size(f) == Len(f.data)

\* A hex string is a sequence of character codes: a code below 50 is a digit,
\* 50..99 a lowercase letter, 150..199 the same letter in upper case.
IsUpperChar(c) == c >= 150
Lower(s) == [i \in 1..Len(s) |-> IF IsUpperChar(s[i]) THEN s[i] - 100 ELSE s[i]]
Upper(s) == [i \in 1..Len(s) |-> IF s[i] >= 50 /\ s[i] < 100 THEN s[i] + 100 ELSE s[i]]
\* hashlib.new(algorithm).hexdigest(): lowercase, injective on the contents.
Digest(d) == <<1>> \o [i \in 1..Len(d) |-> 50 + d[i]]

NoHash == <<>>     \* expected_hash = None

MirrorNames == {"github", "github_api"}
\* Insertion order of self.mirrors (a dict).
MirrorOrder == <<"github", "github_api">>

NoMaxAge == -1     \* no cache-control: max-age in the response headers
NoExpiry == -1     \* CacheEntry.expires_at = None
MaxAges == {NoMaxAge, 0}

\* session.get raised instead of returning a response.
Raises == 0

NoResponse == [status |-> 0, body |-> <<>>, max_age |-> NoMaxAge]
Resp(s, b, a) == [status |-> s, body |-> b, max_age |-> a]

\* DownloadTask values the caller submits; url u is downloaded to destination u.
ExpectedHashes(u) ==
    {NoHash, Digest(Resource(u)), Upper(Digest(Resource(u))), Digest(ErrBody)}

Tasks ==
    {t \in [url : TaskUrls, destination : TaskUrls,
            expected_hash : UNION {ExpectedHashes(v) : v \in TaskUrls},
            resumable : BOOLEAN, max_retries : {MaxRetries}, mirrors : {<<>>}] :
        t.destination = t.url /\ t.expected_hash \in ExpectedHashes(t.url)}

NoTask == [url |-> 0, destination |-> 0, expected_hash |-> NoHash,
           resumable |-> FALSE, max_retries |-> 0, mirrors |-> <<>>]

-----------------------------------------------------------------------------
(* CacheStore *)

Remove(d, k) == [x \in DOMAIN d \ {k} |-> d[x]]
Put(d, k, v) == [x \in DOMAIN d \cup {k} |-> IF x = k THEN v ELSE d[x]]

CacheEntry(sz, t, exp) ==
    [size |-> sz, access_count |-> 0, cached_at |-> t, last_accessed |-> t,
     expires_at |-> exp]

NoEntries == [u \in {} |-> CacheEntry(0, 0, NoExpiry)]
NoFiles == [u \in Urls |-> Missing]

\* A valid entry for url: indexed, its file present, not past expires_at.
ValidEntry(entries, files, t, url) ==
    /\ url \in DOMAIN entries
    /\ files[url].exists
    /\ (entries[url].expires_at = NoExpiry \/ t <= entries[url].expires_at)

\* is_cached with the expiry check left out.
is_cached_ignoring_expiry(entries, files, t, url) ==
    url \in DOMAIN entries /\ files[url].exists

\* is_cached(url): the value returned.
is_cached(entries, files, t, url) ==
    /\ url \in DOMAIN entries
    /\ files[url].exists
    /\ ~(entries[url].expires_at # NoExpiry /\ t > entries[url].expires_at)

\* is_cached(url): self.cache_entries afterwards (an entry whose file is gone
\* is deleted).
is_cached_entries(entries, files, url) ==
    IF url \in DOMAIN entries /\ ~files[url].exists
    THEN Remove(entries, url) ELSE entries

\* A lookup that counts its hits and not its misses.
get_cached_file_hits_only(entries, files, st, t, url) ==
    IF is_cached(entries, files, t, url)
    THEN [hit |-> TRUE,
          entries |-> [entries EXCEPT ![url].access_count = @ + 1,
                                      ![url].last_accessed = t],
          stats |-> [st EXCEPT !.cache_hits = @ + 1]]
    ELSE [hit |-> FALSE,
          entries |-> is_cached_entries(entries, files, url),
          stats |-> st]

\* get_cached_file(url): hit, self.cache_entries and self.stats afterwards.
get_cached_file(entries, files, st, t, url) ==
    IF is_cached(entries, files, t, url)
    THEN [hit |-> TRUE,
          entries |-> [entries EXCEPT ![url].access_count = @ + 1,
                                      ![url].last_accessed = t],
          stats |-> [st EXCEPT !.cache_hits = @ + 1]]
    ELSE [hit |-> FALSE,
          entries |-> is_cached_entries(entries, files, url),
          stats |-> [st EXCEPT !.cache_misses = @ + 1]]

\* _load_cache_index (lines 184-208): every entry of the index file becomes a
\* CacheEntry under its url; whether its file_path exists is not looked at.
load_cache_index(persisted, files) == [u \in DOMAIN persisted |-> persisted[u]]

RECURSIVE TotalSize(_)
TotalSize(entries) ==
    IF DOMAIN entries = {} THEN 0
    ELSE LET u == CHOOSE v \in DOMAIN entries : TRUE
         IN  entries[u].size + TotalSize(Remove(entries, u))

\* The most recently used entry last, however often it was used.
EvictBefore_by_recency(e1, e2) == e1.last_accessed < e2.last_accessed

\* The sort key of cache_cleanup: (access_count, last_accessed).  sorted() is
\* stable; entries of equal key leave in the order of the dict, which the
\* model does not fix.
EvictBefore(e1, e2) ==
    \/ e1.access_count < e2.access_count
    \/ e1.access_count = e2.access_count /\ e1.last_accessed < e2.last_accessed

RECURSIVE SortedEntries(_)
SortedEntries(entries) ==
    IF DOMAIN entries = {} THEN <<>>
    ELSE LET u == CHOOSE v \in DOMAIN entries :
                      \A w \in DOMAIN entries \ {v} : ~EvictBefore(entries[w], entries[v])
         IN  <<u>> \o SortedEntries(Remove(entries, u))

\* The removal loop of cache_cleanup.
RECURSIVE EvictLoop(_, _, _, _, _)
EvictLoop(order, entries, files, total, max_size) ==
    IF order = <<>> THEN [entries |-> entries, files |-> files]
    ELSE LET u == Head(order)
             e2 == Remove(entries, u)
             f2 == [files EXCEPT ![u] = Missing]
             t2 == total - entries[u].size
         IN  IF t2 <= max_size THEN [entries |-> e2, files |-> f2]
             ELSE EvictLoop(Tail(order), e2, f2, t2, max_size)

\* cache_cleanup(max_size): entries, files, and whether the index was saved.
cache_cleanup(entries, files, max_size) ==
    LET valid == [u \in {v \in DOMAIN entries : files[v].exists} |->
                     [entries[u] EXCEPT !.size = Size(files[u])]]
        total == TotalSize(valid)
    IN  IF total <= max_size
        THEN [entries |-> valid, files |-> files, saved |-> FALSE]
        ELSE LET r == EvictLoop(SortedEntries(valid), valid, files, total, max_size)
             IN  [entries |-> r.entries, files |-> r.files, saved |-> TRUE]

\* The cadence of the cleanup inside _cache_file.
CleanupDue(entries) == Cardinality(DOMAIN entries) % CleanupEvery = 0

\* Where _cache_file can meet an exception: nowhere, in shutil.copy2 (600), in
\* stat (607), inside cache_cleanup (634), or in the write of the index, which
\* _save_cache_index swallows itself (239-243).
CommitFailures == {"none", "copy", "stat", "cleanup", "save"}

\* _cache_file(url, file_path, headers): the cache afterwards.  The except
\* clause of line 638 swallows whatever was raised, leaving what was done up
\* to there.  applies: the failure can happen in this call (a cleanup fails
\* only when one is due).
cache_file(entries, files, index, st, maxsz, t, url, file, max_age, fail) ==
    IF fail = "copy"
    THEN [entries |-> entries, files |-> files, index |-> index, stats |-> st,
          committed |-> FALSE, applies |-> TRUE]
    ELSE LET f1 == [files EXCEPT ![url] = File(file.data)]
             entry == CacheEntry(Size(f1[url]), t,
                                 IF max_age = NoMaxAge THEN NoExpiry ELSE t + max_age)
             e1 == Put(entries, url, entry)
             st1 == [st EXCEPT !.bytes_cached = @ + entry.size]
             c == IF CleanupDue(e1) /\ fail # "cleanup"
                  THEN cache_cleanup(e1, f1, maxsz)
                  ELSE [entries |-> e1, files |-> f1, saved |-> FALSE]
         IN  IF fail = "stat"
             THEN [entries |-> entries, files |-> f1, index |-> index, stats |-> st,
                   committed |-> FALSE, applies |-> TRUE]
             ELSE [entries |-> c.entries, files |-> c.files,
                   index |-> IF fail = "none" THEN c.entries ELSE index,
                   stats |-> st1, committed |-> TRUE,
                   applies |-> (fail = "cleanup" => CleanupDue(e1))]

-----------------------------------------------------------------------------
(* MirrorRegistry *)

Mirror(p) ==
    [priority |-> p, status |-> "unknown", response_time |-> 0,
     success_rate |-> <<0, 1>>, total_requests |-> 0, successful_requests |-> 0]

\* success_rate is a fraction <<numerator, denominator>>.
RateLess(a, b) == a[1] * b[2] < b[1] * a[2]

\* The sort key of get_best_mirrors, (priority, success_rate, -response_time):
\* m1 sorts strictly after m2 in ascending order.
MirrorKeyGreater(m1, m2) ==
    \/ m1.priority > m2.priority
    \/ /\ m1.priority = m2.priority
       /\ \/ RateLess(m2.success_rate, m1.success_rate)
          \/ /\ ~RateLess(m1.success_rate, m2.success_rate)
             /\ m1.response_time < m2.response_time

\* list.sort(reverse=True) is stable: equal keys keep their order.
RECURSIVE InsertDesc(_, _, _)
InsertDesc(ms, s, n) ==
    IF s = <<>> THEN <<n>>
    ELSE IF MirrorKeyGreater(ms[n], ms[Head(s)]) THEN <<n>> \o s
         ELSE <<Head(s)>> \o InsertDesc(ms, Tail(s), n)

RECURSIVE SortDesc(_, _, _)
SortDesc(ms, todo, acc) ==
    IF todo = <<>> THEN acc
    ELSE SortDesc(ms, Tail(todo), InsertDesc(ms, acc, Head(todo)))

get_best_mirrors(ms, count) ==
    LET available == SelectSeq(MirrorOrder,
                               LAMBDA n : ms[n].status \in {"healthy", "slow", "unknown"})
        sorted == SortDesc(ms, available, <<>>)
    IN  SubSeq(sorted, 1, Min(count, Len(sorted)))

\* response_time < 2.0 (line 265), in seconds.
SlowAfter == 2

\* What the HEAD of check_mirror_health can bring: a status after time
\* seconds, or the request raises.
HealthOutcomes ==
    {[status |-> 200, time |-> 1], [status |-> 200, time |-> 3],
     [status |-> 503, time |-> 1], [status |-> Raises, time |-> 0]}

\* successful_requests / total_requests if total_requests > 0 else 0.0
Rate(m) ==
    IF m.total_requests > 0 THEN <<m.successful_requests, m.total_requests>> ELSE <<0, 1>>

\* check_mirror_health(mirror): the mirror afterwards.
check_mirror_health(m, h) ==
    IF h.status = Raises
    THEN LET m1 == [m EXCEPT !.status = "unreachable"]
         IN  [m1 EXCEPT !.success_rate = Rate(m1)]
    ELSE LET m1 == [m EXCEPT !.response_time = h.time, !.total_requests = @ + 1]
         IN  IF h.status < 400
             THEN LET m2 == [m1 EXCEPT !.successful_requests = @ + 1,
                                       !.status = IF h.time < SlowAfter
                                                  THEN "healthy" ELSE "slow"]
                  IN  [m2 EXCEPT !.success_rate =
                                    <<m2.successful_requests, m2.total_requests>>]
             ELSE LET m2 == [m1 EXCEPT !.status = "unreachable"]
                  IN  [m2 EXCEPT !.success_rate = Rate(m2)]

\* _try_mirrors: mirrors_to_try (task.mirrors are inserted at the front).
RECURSIVE InsertFront(_, _)
InsertFront(names, acc) ==
    IF names = <<>> THEN acc
    ELSE InsertFront(Tail(names),
                     IF Head(names) \in MirrorNames THEN <<Head(names)>> \o acc ELSE acc)

mirrors_to_try(ms, task) == InsertFront(task.mirrors, get_best_mirrors(ms, BestMirrorCount))

-----------------------------------------------------------------------------
(* download_file: the frame of one call *)

\* _verify_hash(file_path, expected_hash, algorithm)
verify_hash(file, expected_hash) == Lower(Digest(file.data)) = Lower(expected_hash)

\* The fields from requested on record what the call did; the code does not
\* read them.  cache_valid: the cache held a valid entry for task.url when the
\* call began; wrote: the destination as the transfer wrote it; primary: how
\* the loop over the original URL ended ("ok", "not_found", or "transient"
\* when every attempt brought an error status or raised); served_by: the
\* source whose 200 _try_mirrors returned; pre_rate: the success_rate of every
\* mirror when the call began; left_after, left_status: while _try_mirrors
\* runs, the number of requests it had sent to the source it left last, and
\* what the last of them brought; cache_failure: where _cache_file met an
\* exception; max_size, pre_entries, pre_files: the argument of a
\* cache_cleanup call and the cache it found.  The last six are the locals of
\* a thread between two of its steps: local, the counter value it loaded;
\* seen, the length of cache_entries when its loop over the dict began;
\* snapshot, valid_entries or cache_data; order and total, sorted_entries and
\* total_size of cache_cleanup; ret, the caller of _save_cache_index.
\* requests counts the session.get calls of _try_mirrors in this call; retried
\* and backoff: while the loop over the original URL goes on, what ended the
\* attempt before ("status" or "exception") and the seconds slept since;
\* asked_after_404: the original URL was requested again after it answered 404.
IdleFrame ==
    [pc |-> "idle", task |-> NoTask, resume_pos |-> 0, response |-> NoResponse,
     attempt |-> 0, to_try |-> <<>>, result |-> "none",
     requested |-> FALSE, got_ok |-> FALSE, healthy |-> TRUE, path |-> "none",
     range_status |-> 0, mode |-> "none", mismatch |-> FALSE, committed |-> FALSE,
     cache_valid |-> FALSE, wrote |-> Missing, pre_dest |-> Missing,
     pre_cache_file |-> Missing, pre_cached_at |-> NoExpiry,
     primary |-> "none", served_by |-> "none",
     pre_rate |-> [n \in MirrorNames |-> <<0, 1>>],
     left_after |-> 0, left_status |-> 0, cache_failure |-> "none",
     max_size |-> 0, pre_entries |-> NoEntries, pre_files |-> NoFiles,
     local |-> 0, seen |-> 0, snapshot |-> NoEntries, order |-> <<>>, total |-> 0,
     ret |-> "none",
     requests |-> 0, retried |-> "none", backoff |-> 0, asked_after_404 |-> FALSE]

\* The call returns r ("true", "false") or raises ("raised").
Finished(f, r) ==
    [f EXCEPT !.pc = "done", !.result = r, !.resume_pos = 0, !.response = NoResponse,
              !.attempt = 0, !.to_try = <<>>, !.left_after = 0, !.left_status = 0,
              !.local = 0, !.seen = 0, !.snapshot = NoEntries, !.order = <<>>,
              !.total = 0, !.ret = "none",
              !.requests = 0, !.retried = "none", !.backoff = 0]

\* _try_mirrors returned a response: lines 496-497.
Fetched(f, resp) ==
    [f EXCEPT !.response = resp, !.attempt = 0, !.to_try = <<>>, !.got_ok = TRUE,
              !.left_after = 0, !.left_status = 0, !.retried = "none", !.backoff = 0,
              !.pc = IF f.resume_pos > 0 THEN "range" ELSE "write"]

\* The primary loop is over (retries exhausted or a 404): on to the mirrors.
\* The loop over the original URL begun again instead of left.
ToMirrors_starting_over(f) == [f EXCEPT !.pc = "primary", !.attempt = 0]

ToMirrors(f) ==
    [f EXCEPT !.pc = "mirror", !.attempt = 0, !.retried = "none", !.backoff = 0]

NoCall == [valid |-> FALSE, task |-> NoTask, result |-> "none", dest |-> Missing,
           healthy |-> FALSE, got_ok |-> FALSE, committed |-> FALSE, path |-> "none"]

Summary(f, dest) ==
    [valid |-> TRUE, task |-> f.task, result |-> f.result, dest |-> dest,
     healthy |-> f.healthy, got_ok |-> f.got_ok, committed |-> f.committed,
     path |-> f.path]

Bump(st, k) == [st EXCEPT ![k] = @ + 1]

-----------------------------------------------------------------------------
(* download_file, step by step.  w is the thread that runs the call. *)

\* The cached file served in offline mode only.
use_cached_offline_only(offline, hit, expected_hash) == hit /\ offline

\* Lines 457-459 and 472-473: the cached file is served when the lookup hits
\* and the mode is offline or the task carries no expected_hash.
use_cached(offline, hit, expected_hash) == hit /\ (offline \/ expected_hash = NoHash)

\* Lines 456-488 and 385-391: consult the cache, and either return from the
\* cache or prepare the transfer.  st is self.stats with the attempt counted;
\* copy_ok = FALSE is shutil.copy2 raising.
download_file_lookup(w, t, st) ==
    LET g == get_cached_file(cache_entries, cache_files, st, now, t.url)
        use_cache == use_cached(offline_mode, g.hit, t.expected_hash)
        entry_at == IF t.url \in DOMAIN cache_entries
                    THEN cache_entries[t.url].cached_at ELSE NoExpiry
        f0 == [IdleFrame EXCEPT !.task = t,
                                !.cache_valid = ValidEntry(cache_entries, cache_files, now, t.url),
                                !.pre_dest = dest_files[t.destination],
                                !.pre_cache_file = cache_files[t.url],
                                !.pre_cached_at = entry_at,
                                !.pre_rate = [n \in MirrorNames |-> mirrors[n].success_rate]]
    IN  /\ cache_entries' = g.entries
        /\ stats' = g.stats
        /\ now' = now + 1
        /\ UNCHANGED <<use_enhanced_network, offline_mode,
                       max_cache_size, cache_files, index_file, mirrors>>
        /\ IF use_cache
           THEN \E copy_ok \in BOOLEAN :
                /\ dest_files' = IF copy_ok
                                 THEN [dest_files EXCEPT ![t.destination] =
                                          File(cache_files[t.url].data)]
                                 ELSE dest_files
                /\ thr' = [thr EXCEPT ![w] =
                      Finished([f0 EXCEPT !.path = IF offline_mode THEN "offline_hit"
                                                   ELSE "cache_hit",
                                          !.healthy = copy_ok],
                               IF copy_ok THEN "true" ELSE "raised")]
           ELSE /\ dest_files' = dest_files
                /\ thr' = [thr EXCEPT ![w] =
                      IF offline_mode
                      THEN Finished([f0 EXCEPT !.path = "offline_miss"], "false")
                      ELSE [f0 EXCEPT
                              !.pc = IF t.max_retries > 0 THEN "primary" ELSE "mirror",
                              !.path = "transfer",
                              !.resume_pos =
                                  IF t.resumable /\ dest_files[t.destination].exists
                                  THEN Size(dest_files[t.destination]) ELSE 0,
                              !.to_try = mirrors_to_try(mirrors, t)]]

\* What a GET of the whole resource can bring: a status, or the request raises.
GetOutcomes == {200, 404, 503, Raises}

\* Line 410: wait_time = 2**attempt
wait_time(attempt) == 2 ^ attempt

\* Lines 394-413: one attempt against the original URL.  time.sleep(wait_time)
\* is reached only in the except clause, and only before another attempt.
try_primary(w) ==
    \E o \in GetOutcomes :
    LET f == thr[w]
        f1 == [f EXCEPT !.requested = TRUE, !.healthy = @ /\ o = 200,
                        !.requests = @ + 1,
                        !.primary = CASE o = 200 -> "ok"
                                      [] o = 404 -> "not_found"
                                      [] OTHER -> "transient",
                        !.served_by = IF o = 200 THEN "primary" ELSE @]
        last == f.attempt + 1 >= f.task.max_retries
        f2 == [f1 EXCEPT !.left_after = f.attempt + 1, !.left_status = o]
        again == IF last THEN ToMirrors(f2)
                 ELSE [f1 EXCEPT !.attempt = @ + 1,
                                 !.retried = IF o = Raises THEN "exception" ELSE "status",
                                 !.backoff = IF o = Raises THEN wait_time(f.attempt) ELSE 0]
    IN  /\ f.pc = "primary"
        /\ UNCHANGED <<use_enhanced_network, offline_mode,
                       max_cache_size, cache_entries, cache_files,
                       index_file, dest_files, mirrors, now>>
        /\ CASE o = 200 ->
                  /\ thr' = [thr EXCEPT ![w] =
                                Fetched(f1, Resp(200, Resource(f.task.url), NoMaxAge))]
                  /\ stats' = stats
             [] o = 404 ->
                  /\ thr' = [thr EXCEPT ![w] = ToMirrors(f2)]
                  /\ stats' = stats
             [] o = 503 ->
                  /\ thr' = [thr EXCEPT ![w] = again]
                  /\ stats' = stats
             [] o = Raises ->
                  /\ thr' = [thr EXCEPT ![w] = again]
                  /\ stats' = IF f.attempt < f.task.max_retries - 1
                              THEN Bump(Bump(stats, "network_errors"), "retry_attempts")
                              ELSE Bump(stats, "network_errors")

\* Lines 416-449 and 492-494: the next mirror of mirrors_to_try, or the end of
\* the list (None is returned and the call fails).
try_mirror(w) ==
    LET f == thr[w]
        m == Head(f.to_try)
        f1 == [f EXCEPT !.requested = TRUE, !.healthy = FALSE, !.to_try = Tail(@),
                        !.requests = @ + 1]
    IN  /\ f.pc = "mirror"
        /\ UNCHANGED <<use_enhanced_network, offline_mode,
                       max_cache_size, cache_entries, cache_files,
                       index_file, dest_files, now>>
        /\ IF f.to_try = <<>>
           THEN /\ thr' = [thr EXCEPT ![w] = Finished([f EXCEPT !.healthy = FALSE], "false")]
                /\ stats' = Bump(stats, "downloads_failed")
                /\ mirrors' = mirrors
           ELSE IF mirrors[m].status = "unreachable"
           THEN /\ thr' = [thr EXCEPT ![w].to_try = Tail(@)]
                /\ UNCHANGED <<stats, mirrors>>
           ELSE \E o \in GetOutcomes :
                CASE o = 200 ->
                  /\ thr' = [thr EXCEPT ![w] =
                                Fetched([f1 EXCEPT !.served_by = m],
                                        Resp(200, Resource(f.task.url), NoMaxAge))]
                  /\ mirrors' = [mirrors EXCEPT ![m].successful_requests = @ + 1]
                  /\ stats' = stats
             [] o \in {404, 503} ->
                  /\ thr' = [thr EXCEPT ![w] = [f1 EXCEPT !.left_after = 1,
                                                          !.left_status = o]]
                  /\ UNCHANGED <<stats, mirrors>>
             [] o = Raises ->
                  /\ thr' = [thr EXCEPT ![w] = [f1 EXCEPT !.left_after = 1,
                                                          !.left_status = o]]
                  /\ mirrors' = [mirrors EXCEPT ![m].total_requests = @ + 1]
                  /\ stats' = Bump(stats, "network_errors")

\* What the origin can answer to "Range: bytes=<pos>-": 206 with the tail when
\* pos lies inside the resource, 416 when it does not, 200 with the whole
\* resource (the Range header is ignored), a server error, or no answer.
RangeOutcomes(url, pos) ==
    (IF pos < Len(Resource(url))
     THEN {Resp(206, SubSeq(Resource(url), pos + 1, Len(Resource(url))), NoMaxAge)}
     ELSE {Resp(416, b, NoMaxAge) : b \in {<<>>, ErrBody}})
    \cup {Resp(200, Resource(url), NoMaxAge), Resp(503, ErrBody, NoMaxAge),
          Resp(Raises, <<>>, NoMaxAge)}

\* What the origin can answer to the plain GET that restarts the transfer.
RestartOutcomes(url) ==
    {Resp(200, Resource(url), NoMaxAge), Resp(503, ErrBody, NoMaxAge),
     Resp(Raises, <<>>, NoMaxAge)}

\* The statuses after which the code keeps resume_pos and appends.
ResumeStatuses == {206, 416}

\* Lines 497-507 and 509-510: the Range request.
range_request(w) ==
    \E r \in RangeOutcomes(thr[w].task.url, thr[w].resume_pos) :
    LET f == thr[w]
        f1 == [f EXCEPT !.requested = TRUE, !.range_status = r.status,
                        !.healthy = @ /\ r.status \in {200, 206, 416},
                        !.asked_after_404 = @ \/ f.primary = "not_found"]
    IN  /\ f.pc = "range"
        /\ thr' = [thr EXCEPT ![w] =
              IF r.status = Raises
              THEN [f1 EXCEPT !.resume_pos = 0, !.pc = "restart_except"]
              ELSE IF r.status \in ResumeStatuses
              THEN [f1 EXCEPT !.response = r, !.pc = "write"]
              ELSE [f1 EXCEPT !.resume_pos = 0, !.pc = "restart_try"]]
        /\ UNCHANGED <<use_enhanced_network, offline_mode,
                       max_cache_size, cache_entries, cache_files,
                       index_file, dest_files, mirrors, stats, now>>

\* Line 508 (inside the try: a failure is caught at 509 and line 511 repeats
\* the request) and line 511 (outside any try: a failure leaves download_file
\* as an exception).  The status of the answer is not looked at.
restart_request(w) ==
    \E r \in RestartOutcomes(thr[w].task.url) :
    LET f == thr[w]
        f1 == [f EXCEPT !.requested = TRUE, !.healthy = @ /\ r.status = 200,
                        !.asked_after_404 = @ \/ f.primary = "not_found"]
    IN  /\ f.pc \in {"restart_try", "restart_except"}
        /\ thr' = [thr EXCEPT ![w] =
              IF r.status = Raises
              THEN IF f.pc = "restart_try"
                   THEN [f1 EXCEPT !.resume_pos = 0, !.pc = "restart_except"]
                   ELSE Finished(f1, "raised")
              ELSE [f1 EXCEPT !.response = r, !.pc = "write"]]
        /\ UNCHANGED <<use_enhanced_network, offline_mode,
                       max_cache_size, cache_entries, cache_files,
                       index_file, dest_files, mirrors, stats, now>>

\* mode = "ab" if resume_pos > 0 else "wb"
open_mode(resume_pos) == IF resume_pos > 0 THEN "ab" ELSE "wb"

\* The destination truncated whatever the mode.
written_truncating(old, mode, body) == File(body)

\* open(task.destination, mode) and the writes of the chunks.
written(old, mode, body) ==
    IF mode = "ab" /\ old.exists THEN File(old.data \o body) ELSE File(body)

\* Lines 523-553 and 568-573: stream the body to the destination.  ok = FALSE
\* is a write or a read of the stream raising: the except clause removes the
\* destination.
write_body(w) ==
    \E ok \in BOOLEAN :
    LET f == thr[w]
        d == f.task.destination
        mode == open_mode(f.resume_pos)
        new == written(dest_files[d], mode, f.response.body)
        f1 == [f EXCEPT !.mode = mode, !.healthy = @ /\ ok,
                        !.wrote = IF ok THEN new ELSE Missing]
    IN  /\ f.pc = "write"
        /\ IF ok
           THEN /\ dest_files' = [dest_files EXCEPT ![d] = new]
                /\ stats' = [stats EXCEPT !.bytes_downloaded = @ + Len(f.response.body)]
                /\ thr' = [thr EXCEPT ![w] = [f1 EXCEPT !.pc = "verify"]]
           ELSE /\ dest_files' = [dest_files EXCEPT ![d] = Missing]
                /\ stats' = Bump(stats, "downloads_failed")
                /\ thr' = [thr EXCEPT ![w] = Finished(f1, "false")]
        /\ UNCHANGED <<use_enhanced_network, offline_mode,
                       max_cache_size, cache_entries, cache_files,
                       index_file, mirrors, now>>

\* Lines 454-488: count the attempt, then the lookup.
download_file_entry(w, t) ==
    download_file_lookup(w, t, Bump(stats, "downloads_attempted"))

\* A failure of the commit reported as a failure of the download.
commit_outcome_escalating(fail) == IF fail = "none" THEN "true" ELSE "false"

\* Lines 563-566: _cache_file returns nothing and lets no exception out, and
\* download_file goes on to return True.
commit_outcome(fail) == "true"

\* No verification at all.
hash_accepted_unverified(file, expected_hash) == TRUE

\* Line 556-557: the verification is skipped without expected_hash.
hash_accepted(file, expected_hash) ==
    expected_hash = NoHash \/ verify_hash(file, expected_hash)

\* Lines 555-566: verify, commit to the cache, report.  The max-age of the
\* response headers is drawn where _cache_file reads it; fails are the
\* failures the disk can produce during the commit.
finish(w, fails) ==
    LET f == thr[w]
        d == f.task.destination
    IN  /\ f.pc = "verify"
        /\ UNCHANGED <<use_enhanced_network, offline_mode, max_cache_size, mirrors>>
        /\ IF ~hash_accepted(dest_files[d], f.task.expected_hash)
           THEN /\ dest_files' = [dest_files EXCEPT ![d] = Missing]
                /\ stats' = Bump(stats, "downloads_failed")
                /\ thr' = [thr EXCEPT ![w] = Finished([f EXCEPT !.mismatch = TRUE], "false")]
                /\ UNCHANGED <<cache_entries, cache_files, index_file, now>>
           ELSE \E fail \in fails, max_age \in MaxAges :
                LET c == cache_file(cache_entries, cache_files, index_file, stats,
                                    max_cache_size, now, f.task.url, dest_files[d],
                                    max_age, fail)
                IN  /\ c.applies
                    /\ c.committed \/ max_age = NoMaxAge
                    /\ cache_entries' = c.entries
                    /\ cache_files' = c.files
                    /\ index_file' = c.index
                    /\ stats' = Bump(c.stats, "downloads_successful")
                    /\ now' = now + 1
                    /\ dest_files' = dest_files
                    /\ thr' = [thr EXCEPT ![w] =
                                  Finished([f EXCEPT !.committed = c.committed,
                                                     !.cache_failure = fail,
                                                     !.healthy = @ /\ fail = "none"],
                                           commit_outcome(fail))]

-----------------------------------------------------------------------------
(* DownloadManager.download_file without the enhanced downloader *)

\* download.py 138-148: resume_byte_pos is the size of the file found at
\* output_path when resume is set.
fallback_entry(w, t) ==
    /\ thr' = [thr EXCEPT ![w] =
          [IdleFrame EXCEPT !.task = t, !.pc = "head", !.path = "fallback",
                            !.pre_dest = dest_files[t.destination],
                            !.resume_pos =
                                IF t.resumable /\ dest_files[t.destination].exists
                                THEN Size(dest_files[t.destination]) ELSE 0]]
    /\ UNCHANGED <<use_enhanced_network, offline_mode, max_cache_size, cache_entries,
                   cache_files, index_file, dest_files, mirrors, stats, now>>

\* download.py 261-269: both except clauses remove the file at output_path
\* unless resume is set, and raise DownloadError.
failed_download(files, t) ==
    IF files[t.destination].exists /\ ~t.resumable
    THEN [files EXCEPT ![t.destination] = Missing] ELSE files

\* What a HEAD can bring: 200 with or without "accept-ranges: bytes", an error
\* status (raise_for_status raises), or the request raises.
HeadOutcomes ==
    {[status |-> 200, accept_ranges |-> TRUE], [status |-> 200, accept_ranges |-> FALSE],
     [status |-> 503, accept_ranges |-> FALSE], [status |-> Raises, accept_ranges |-> FALSE]}

\* download.py 150-168: the HEAD request and the choice of the Range header;
\* without range support the file found is removed and the transfer starts
\* over.
head_request(w) ==
    \E h \in HeadOutcomes :
    LET f == thr[w]
        d == f.task.destination
        f1 == [f EXCEPT !.requested = TRUE, !.healthy = @ /\ h.status = 200]
        ranged == f.task.resumable /\ f.resume_pos > 0 /\ h.accept_ranges
    IN  /\ f.pc = "head"
        /\ IF h.status # 200
           THEN /\ thr' = [thr EXCEPT ![w] = Finished(f1, "raised")]
                /\ dest_files' = failed_download(dest_files, f.task)
           ELSE IF ranged
           THEN /\ thr' = [thr EXCEPT ![w] = [f1 EXCEPT !.pc = "get"]]
                /\ dest_files' = dest_files
           ELSE /\ thr' = [thr EXCEPT ![w] = [f1 EXCEPT !.pc = "get", !.resume_pos = 0]]
                /\ dest_files' = IF f.resume_pos > 0
                                 THEN [dest_files EXCEPT ![d] = Missing] ELSE dest_files
        /\ UNCHANGED <<use_enhanced_network, offline_mode, max_cache_size, cache_entries,
                       cache_files, index_file, mirrors, stats, now>>

\* download.py 170-174: the GET, with the Range header when resume_byte_pos is
\* still positive; raise_for_status raises on a status of 400 and above.
get_request(w) ==
    \E r \in (IF thr[w].resume_pos > 0
              THEN RangeOutcomes(thr[w].task.url, thr[w].resume_pos)
              ELSE RestartOutcomes(thr[w].task.url)) :
    LET f == thr[w]
        f1 == [f EXCEPT !.requested = TRUE,
                        !.range_status = IF f.resume_pos > 0 THEN r.status ELSE @,
                        !.healthy = @ /\ r.status \in {200, 206, 416}]
    IN  /\ f.pc = "get"
        /\ IF r.status = Raises \/ r.status >= 400
           THEN /\ thr' = [thr EXCEPT ![w] = Finished(f1, "raised")]
                /\ dest_files' = failed_download(dest_files, f.task)
           ELSE /\ thr' = [thr EXCEPT ![w] =
                              [f1 EXCEPT !.response = r, !.got_ok = TRUE, !.pc = "stream"]]
                /\ dest_files' = dest_files
        /\ UNCHANGED <<use_enhanced_network, offline_mode, max_cache_size, cache_entries,
                       cache_files, index_file, mirrors, stats, now>>

\* download.py 184-195, 224-225 and 245-247: hash_obj is fed the bytes found on
\* disk when resuming, then every chunk received.
primed_hash_accepted(old, resume_pos, body, expected_hash) ==
    \/ expected_hash = NoHash
    \/ Lower(Digest((IF resume_pos > 0 /\ old.exists THEN old.data ELSE <<>>) \o body))
           = Lower(expected_hash)

\* download.py 180-259 and 266-269: stream the body to output_path, verify,
\* return the path.  n < Len(body) is a write or a read of the stream raising
\* after n bytes; a mismatch removes the file and raises DownloadError.
stream_and_verify(w) ==
    \E n \in 0..Len(thr[w].response.body) :
    LET f == thr[w]
        d == f.task.destination
        old == dest_files[d]
        body == f.response.body
        mode == open_mode(f.resume_pos)
        new == written(old, mode, SubSeq(body, 1, n))
        ok == n = Len(body)
        accepted == primed_hash_accepted(old, f.resume_pos, body, f.task.expected_hash)
        f1 == [f EXCEPT !.mode = mode, !.healthy = @ /\ ok,
                        !.wrote = IF ok THEN new ELSE Missing,
                        !.mismatch = ok /\ ~accepted]
    IN  /\ f.pc = "stream"
        /\ dest_files' =
              IF ~ok THEN failed_download([dest_files EXCEPT ![d] = new], f.task)
              ELSE IF accepted THEN [dest_files EXCEPT ![d] = new]
              ELSE [dest_files EXCEPT ![d] = Missing]
        /\ thr' = [thr EXCEPT ![w] =
                      Finished(f1, IF ok /\ accepted THEN "true" ELSE "raised")]
        /\ UNCHANGED <<use_enhanced_network, offline_mode, max_cache_size, cache_entries,
                       cache_files, index_file, mirrors, stats, now>>

\* download.py 117-139: the call goes to the enhanced downloader when there is
\* one.
manager_download_file(w, t) ==
    IF use_enhanced_network THEN download_file_entry(w, t) ELSE fallback_entry(w, t)

-----------------------------------------------------------------------------
(* The caller *)

Main == 0                      \* the caller's thread
Workers == 1..MaxConcurrent         \* threads of the ThreadPoolExecutor
Threads == {Main} \cup Workers

\* The frame of download_multiple.  queue: the executor's work queue;
\* running: the future each pool thread is running; future: the state of the
\* future of each task (in the sequential branch, what its call did);
\* completed: the futures as_completed has still to yield, oldest first;
\* next: the position of the list comprehension.
IdleBatch == [pc |-> "idle", tasks |-> <<>>, max_concurrent |-> 0, queue |-> <<>>,
              running |-> [w \in 1..MaxConcurrent |-> 0], future |-> <<>>,
              completed |-> <<>>, results |-> <<>>, next |-> 0]

\* The caller takes the result of the call that thread w finished.
Return(w) ==
    /\ thr[w].pc = "done"
    /\ prev' = Summary(thr[w], dest_files[thr[w].task.destination])
    /\ thr' = [thr EXCEPT ![w] = IdleFrame]
    /\ UNCHANGED <<use_enhanced_network, offline_mode,
                   max_cache_size, cache_entries, cache_files,
                   index_file, dest_files, mirrors, stats, now, calls, dm>>

\* The caller calls download_file(t).
Call(t) ==
    /\ thr[Main].pc = "idle"
    /\ dm.pc = "idle"
    /\ calls = 0
    /\ calls' = calls + 1
    /\ manager_download_file(Main, t)
    /\ UNCHANGED <<prev, dm>>

\* The caller submits again the task of a call that reported success.
CallAgain ==
    /\ thr[Main].pc = "idle"
    /\ dm.pc = "idle"
    /\ calls > 0 /\ calls < MaxCalls
    /\ prev.valid /\ prev.result = "true"
    /\ calls' = calls + 1
    /\ manager_download_file(Main, prev.task)
    /\ UNCHANGED <<prev, dm>>

\* A step of the download_file call that thread w is running, on a disk that
\* can fail the commit in the ways of fails.
StepWith(w, fails) ==
    /\ \/ try_primary(w)
       \/ try_mirror(w)
       \/ range_request(w)
       \/ restart_request(w)
       \/ write_body(w)
       \/ finish(w, fails)
    /\ UNCHANGED <<calls, prev, dm>>

\* The same, the commit failing, if it does, in the copy into the cache.
Step(w) == StepWith(w, {"none", "copy"})

\* A step of the download_file call that DownloadManager runs itself.
FallbackStep(w) ==
    /\ \/ head_request(w)
       \/ get_request(w)
       \/ stream_and_verify(w)
    /\ UNCHANGED <<calls, prev, dm>>

-----------------------------------------------------------------------------
(* download_multiple *)

\* The task list handed to download_multiple: one task per url, each to its
\* own destination, every second one resumable.
BatchTask(i) ==
    [url |-> i, destination |-> i, expected_hash |-> NoHash, resumable |-> i % 2 = 0,
     max_retries |-> MaxRetries, mirrors |-> <<>>]
Batch == [i \in 1..Cardinality(TaskUrls) |-> BatchTask(i)]

\* Lines 644-653: the call, up to the submission of every task.
download_multiple(tasks, max_concurrent) ==
    /\ dm.pc = "idle"
    /\ thr[Main].pc = "idle"
    /\ calls = 0
    /\ dm' = [IdleBatch EXCEPT
                !.pc = IF max_concurrent = 1 THEN "sequential" ELSE "pool",
                !.tasks = tasks, !.max_concurrent = max_concurrent,
                !.queue = IF max_concurrent = 1 THEN <<>>
                          ELSE [i \in 1..Len(tasks) |-> i],
                !.future = [i \in 1..Len(tasks) |-> "pending"],
                !.next = 1]
    /\ UNCHANGED <<use_enhanced_network, offline_mode,
                   max_cache_size, cache_entries, cache_files,
                   index_file, dest_files, mirrors, stats, now, thr, calls, prev>>

\* Line 646: the list comprehension calls download_file for the next task.
sequential_call ==
    /\ dm.pc = "sequential"
    /\ thr[Main].pc = "idle"
    /\ dm.next <= Len(dm.tasks)
    /\ download_file_entry(Main, dm.tasks[dm.next])
    /\ dm' = [dm EXCEPT !.future[dm.next] = "running"]
    /\ calls' = calls + 1
    /\ UNCHANGED prev

\* Line 646: the call returned, its value joins the list; or it raised, and
\* the exception leaves the comprehension and download_multiple.
sequential_result ==
    LET f == thr[Main]
        i == dm.next
    IN  /\ dm.pc = "sequential"
        /\ f.pc = "done"
        /\ thr' = [thr EXCEPT ![Main] = IdleFrame]
        /\ dm' = IF f.result = "raised"
                 THEN [dm EXCEPT !.pc = "raised", !.future[i] = "raised"]
                 ELSE [dm EXCEPT !.results = Append(@, f.result = "true"),
                                 !.future[i] = f.result,
                                 !.next = i + 1,
                                 !.pc = IF i = Len(dm.tasks) THEN "returned" ELSE @]
        /\ UNCHANGED <<use_enhanced_network, offline_mode,
                       max_cache_size, cache_entries, cache_files,
                       index_file, dest_files, mirrors, stats, now, calls, prev>>

\* ThreadPoolExecutor(max_workers=max_concurrent): an idle pool thread takes
\* the oldest submitted task and calls download_file.
worker_take(w) ==
    /\ dm.pc = "pool"
    /\ w <= dm.max_concurrent
    /\ thr[w].pc = "idle"
    /\ dm.queue # <<>>
    /\ download_file_entry(w, dm.tasks[Head(dm.queue)])
    /\ dm' = [dm EXCEPT !.queue = Tail(@), !.running[w] = Head(dm.queue),
                        !.future[Head(dm.queue)] = "running"]
    /\ calls' = calls + 1
    /\ UNCHANGED prev

\* The call of a pool thread is over: its future completes, with the value
\* returned or the exception raised.
worker_done(w) ==
    /\ dm.pc = "pool"
    /\ thr[w].pc = "done"
    /\ thr' = [thr EXCEPT ![w] = IdleFrame]
    /\ dm' = [dm EXCEPT !.future[dm.running[w]] = thr[w].result,
                        !.running[w] = 0,
                        !.completed = Append(@, dm.running[w])]
    /\ UNCHANGED <<use_enhanced_network, offline_mode,
                   max_cache_size, cache_entries, cache_files,
                   index_file, dest_files, mirrors, stats, now, calls, prev>>

\* result = future.result(): an exception is caught and recorded as False
\* (lines 656-661).
future_result(state) == state = "true"

\* Lines 655-663: as_completed yields the futures in the order they complete;
\* each result is appended; after the last one the call returns.
collect ==
    /\ dm.pc = "pool"
    /\ dm.completed # <<>>
    /\ dm' = [dm EXCEPT
                !.results = Append(@, future_result(dm.future[Head(dm.completed)])),
                !.completed = Tail(@),
                !.pc = IF Len(dm.results) + 1 = Len(dm.tasks) THEN "returned" ELSE @]
    /\ UNCHANGED <<use_enhanced_network, offline_mode,
                   max_cache_size, cache_entries, cache_files,
                   index_file, dest_files, mirrors, stats, now, thr, calls, prev>>

-----------------------------------------------------------------------------
(* The state after construction *)

\* The clock when the constructor returns; earlier runs cached before it.
Epoch == 20

OneEntry(e, file) ==
    [entries |-> [u \in {1} |-> e],
     files |-> [u \in Urls |-> IF u = 1 THEN file ELSE Missing],
     budget |-> ResLen + 1]

\* The cache directory the constructor finds (_load_cache_index keeps every
\* persisted entry), with the budget it is given: empty; url 1 cached by an
\* earlier run, valid, expired, or its file since deleted; CleanupEvery - 1
\* one-byte entries of other urls.  Each budget holds the entries found.
InitCaches ==
    {[entries |-> NoEntries, files |-> NoFiles, budget |-> ResLen + 1],
     OneEntry(CacheEntry(ResLen, Epoch - 1, NoExpiry), File(Resource(1))),
     OneEntry(CacheEntry(ResLen, Epoch - 2, Epoch - 1), File(Resource(1))),
     OneEntry(CacheEntry(ResLen, Epoch - 1, NoExpiry), Missing),
     [entries |-> [u \in BackgroundUrls |-> CacheEntry(1, u - 10, NoExpiry)],
      files |-> [u \in Urls |-> IF u \in BackgroundUrls THEN File(<<u>>) ELSE Missing],
      budget |-> CleanupEvery]}

\* A destination is absent, or holds the first bytes of its resource (a
\* transfer that an earlier run left unfinished).
InitDests ==
    {d \in [TaskUrls -> {Missing} \cup
                        {File(SubSeq(Resource(u), 1, n)) : u \in TaskUrls, n \in 1..(ResLen - 1)}] :
        /\ \A u \in TaskUrls : d[u].exists => d[u].data = SubSeq(Resource(u), 1, Len(d[u].data))
        /\ \A u, v \in TaskUrls : Len(d[u].data) = Len(d[v].data) /\ d[u].exists = d[v].exists}

InitStats ==
    [downloads_attempted |-> 0, downloads_successful |-> 0, downloads_failed |-> 0,
     cache_hits |-> 0, cache_misses |-> 0, bytes_downloaded |-> 0, bytes_cached |-> 0,
     network_errors |-> 0, retry_attempts |-> 0]

Init ==
    /\ use_enhanced_network \in BOOLEAN
    /\ offline_mode \in BOOLEAN
    /\ \E c \in InitCaches :
          /\ cache_entries = load_cache_index(c.entries, c.files)
          /\ cache_files = c.files
          /\ index_file = c.entries
          /\ max_cache_size = c.budget
    /\ use_enhanced_network \/ (~offline_mode /\ cache_entries = NoEntries)
    /\ dest_files \in InitDests
    /\ mirrors = [n \in MirrorNames |-> Mirror(1)]
    /\ stats = InitStats
    /\ now = Epoch
    /\ thr = [w \in Threads |-> IdleFrame]
    /\ calls = 0
    /\ prev = NoCall
    /\ dm = IdleBatch

Next ==
    \/ \E t \in Tasks : Call(t)
    \/ CallAgain
    \/ Step(Main)
    \/ FallbackStep(Main)
    \/ Return(Main)

Spec == Init /\ [][Next]_vars

\* download_multiple on a fresh downloader.  The downloader is online; url 1
\* is cached or not; the destinations hold unfinished transfers.
InitMultiple ==
    /\ Init
    /\ use_enhanced_network
    /\ ~offline_mode
    /\ \A u \in TaskUrls : dest_files[u].exists
    /\ DOMAIN cache_entries \subseteq TaskUrls
    /\ \A u \in DOMAIN cache_entries : ValidEntry(cache_entries, cache_files, now, u)

NextMultiple ==
    \/ \E k \in 1..MaxConcurrent : download_multiple(Batch, k)
    \/ sequential_call
    \/ sequential_result
    \/ \E w \in Workers : worker_take(w)
    \/ \E w \in Workers : worker_done(w)
    \/ collect
    \/ \E w \in Threads : Step(w)

SpecMultiple == InitMultiple /\ [][NextMultiple]_vars

\* A single download_file call, by either downloader, on a disk that can fail
\* the commit at any point.
NextOnce ==
    \/ \E t \in Tasks : Call(t)
    \/ StepWith(Main, CommitFailures)
    \/ FallbackStep(Main)
    \/ Return(Main)

SpecOnce == Init /\ [][NextOnce]_vars

\* cache_cleanup(max_size) called by the owner of the downloader.
cleanup_call(max_size) ==
    LET c == cache_cleanup(cache_entries, cache_files, max_size)
    IN  /\ thr[Main].pc = "idle"
        /\ calls = 0
        /\ calls' = calls + 1
        /\ cache_entries' = c.entries
        /\ cache_files' = c.files
        /\ index_file' = IF c.saved THEN c.entries ELSE index_file
        /\ thr' = [thr EXCEPT ![Main] =
                      Finished([IdleFrame EXCEPT !.path = "cleanup",
                                                 !.max_size = max_size,
                                                 !.pre_entries = cache_entries,
                                                 !.pre_files = cache_files], "none")]
        /\ UNCHANGED <<use_enhanced_network, offline_mode, max_cache_size, dest_files,
                       mirrors, stats, now, prev, dm>>

\* The caches cache_cleanup is tried on: up to three entries of earlier runs,
\* used or not, two instants of last access, each with its file of one or two
\* bytes or with its file gone; the size recorded may be stale.
CleanupUrls == {1, 2, 11}
CleanupSizes == 1..ResLen
CleanupBudgets == 0..(2 * ResLen)

CleanupEntries ==
    [size : CleanupSizes, access_count : {0, 1}, cached_at : {Epoch - 2},
     last_accessed : {Epoch - 2, Epoch - 1}, expires_at : {NoExpiry}]

InitCleanup ==
    /\ use_enhanced_network = TRUE
    /\ offline_mode = FALSE
    /\ max_cache_size \in CleanupBudgets
    /\ \E S \in SUBSET CleanupUrls :
          /\ cache_entries \in [S -> CleanupEntries]
          /\ \E fs \in [S -> {Missing} \cup {File([i \in 1..n |-> 7]) : n \in CleanupSizes}] :
                cache_files = [u \in Urls |-> IF u \in S THEN fs[u] ELSE Missing]
    /\ index_file = cache_entries
    /\ dest_files = [u \in TaskUrls |-> Missing]
    /\ mirrors = [n \in MirrorNames |-> Mirror(1)]
    /\ stats = InitStats
    /\ now = Epoch
    /\ thr = [w \in Threads |-> IdleFrame]
    /\ calls = 0
    /\ prev = NoCall
    /\ dm = IdleBatch

NextCleanup == cleanup_call(max_cache_size)

SpecCleanup == InitCleanup /\ [][NextCleanup]_vars

\* get_cached_file(url) called by the owner of the downloader; the frame keeps
\* what was asked, what was returned, and the cache as the call found it.
MaxLookups == 3

lookup(url) ==
    LET g == get_cached_file(cache_entries, cache_files, stats, now, url)
    IN  /\ thr[Main].pc = "idle"
        /\ calls < MaxLookups
        /\ calls' = calls + 1
        /\ cache_entries' = g.entries
        /\ stats' = g.stats
        /\ now' = now + 1
        /\ thr' = [thr EXCEPT ![Main] =
                      [IdleFrame EXCEPT !.path = "lookup",
                                        !.task = [NoTask EXCEPT !.url = url],
                                        !.result = IF g.hit THEN "path" ELSE "no_path",
                                        !.pre_entries = cache_entries,
                                        !.pre_files = cache_files]]
        /\ UNCHANGED <<use_enhanced_network, offline_mode, max_cache_size, cache_files,
                       index_file, dest_files, mirrors, prev, dm>>

\* The caches the lookups are tried on: each url absent, or indexed by an
\* earlier run, without expires_at, with one already passed, or with one that
\* passes while the lookups go on; its file present or gone.
LookupExpiries == {NoExpiry, Epoch - 1, Epoch + 1}

InitLookup ==
    /\ use_enhanced_network = TRUE
    /\ offline_mode = FALSE
    /\ max_cache_size = 2 * ResLen
    /\ \E S \in SUBSET TaskUrls :
          /\ cache_entries \in [S -> {CacheEntry(ResLen, Epoch - 2, x) : x \in LookupExpiries}]
          /\ \E fs \in [S -> {Missing, File(Resource(1))}] :
                cache_files = [u \in Urls |-> IF u \in S THEN fs[u] ELSE Missing]
    /\ index_file = cache_entries
    /\ dest_files = [u \in TaskUrls |-> Missing]
    /\ mirrors = [n \in MirrorNames |-> Mirror(1)]
    /\ stats = InitStats
    /\ now = Epoch
    /\ thr = [w \in Threads |-> IdleFrame]
    /\ calls = 0
    /\ prev = NoCall
    /\ dm = IdleBatch

NextLookup == \E url \in TaskUrls : lookup(url)

SpecLookup == InitLookup /\ [][NextLookup]_vars

-----------------------------------------------------------------------------
(* download_file on two pool threads, statement by statement *)

\* No statement of download_file, _cache_file, cache_cleanup or
\* _save_cache_index takes a lock, so the threads of download_multiple
\* interleave between any two of them.  The steps below are the statements that
\* touch what the threads share: self.stats, self.cache_entries and the index
\* file.  A loop over self.cache_entries that another thread resizes under it
\* either misses the race or raises RuntimeError: both outcomes are drawn.
\* Every request answers 200 and every write succeeds.

Entries(d) == Cardinality(DOMAIN d)

\* Line 454, the load of self.stats['downloads_attempted'] += 1: a pool thread
\* has taken a task and entered download_file.
attempt_load(w) ==
    /\ dm.pc = "pool"
    /\ w <= dm.max_concurrent
    /\ thr[w].pc = "idle"
    /\ dm.queue # <<>>
    /\ thr' = [thr EXCEPT ![w] =
                 [IdleFrame EXCEPT !.task = dm.tasks[Head(dm.queue)],
                                   !.pc = "attempted",
                                   !.local = stats.downloads_attempted]]
    /\ dm' = [dm EXCEPT !.queue = Tail(@), !.running[w] = Head(dm.queue),
                        !.future[Head(dm.queue)] = "running"]
    /\ calls' = calls + 1
    /\ UNCHANGED <<use_enhanced_network, offline_mode, max_cache_size, cache_entries,
                   cache_files, index_file, dest_files, mirrors, stats, now, prev>>

\* Line 454, the store, and the lookup of lines 456-488.
attempt_store(w) ==
    /\ thr[w].pc = "attempted"
    /\ download_file_lookup(w, thr[w].task,
                            [stats EXCEPT !.downloads_attempted = thr[w].local + 1])
    /\ UNCHANGED <<calls, prev, dm>>

\* Lines 497 and 523-553 when the server answers and the disk takes the body.
transfer(w) ==
    /\ try_primary(w) \/ write_body(w)
    /\ thr'[w].healthy
    /\ UNCHANGED <<calls, prev, dm>>

\* Lines 594-630: copy the file into the cache directory, build the entry,
\* self.cache_entries[url] = entry, count the bytes.
commit_put(w) ==
    LET f == thr[w]
        data == dest_files[f.task.destination].data
    IN  /\ f.pc = "verify"
        /\ hash_accepted(dest_files[f.task.destination], f.task.expected_hash)
        /\ cache_files' = [cache_files EXCEPT ![f.task.url] = File(data)]
        /\ cache_entries' = Put(cache_entries, f.task.url,
                                CacheEntry(Len(data), now, NoExpiry))
        /\ stats' = [stats EXCEPT !.bytes_cached = @ + Len(data)]
        /\ now' = now + 1
        /\ thr' = [thr EXCEPT ![w] = [f EXCEPT !.pc = "commit_check", !.committed = TRUE]]
        /\ UNCHANGED <<use_enhanced_network, offline_mode, max_cache_size, index_file,
                       dest_files, mirrors, calls, prev, dm>>

\* _save_cache_index is entered from caller: its loop over the dict, which
\* holds entries, begins.
EnterSave(f, caller, entries) ==
    [f EXCEPT !.pc = "save", !.ret = caller, !.seen = Entries(entries),
              !.snapshot = NoEntries, !.order = <<>>, !.total = 0]

\* _cache_file is over (its last statement, or its except clause).
LeaveCommit(f) ==
    [f EXCEPT !.pc = "count", !.ret = "none", !.seen = 0,
              !.snapshot = NoEntries, !.order = <<>>, !.total = 0]

\* Line 633: len(self.cache_entries) % 10 == 0 decides between cache_cleanup
\* and the save of line 636.
commit_check(w) ==
    LET f == thr[w]
    IN  /\ f.pc = "commit_check"
        /\ thr' = [thr EXCEPT ![w] =
                     IF CleanupDue(cache_entries)
                     THEN [f EXCEPT !.pc = "cleanup_scan", !.seen = Entries(cache_entries)]
                     ELSE EnterSave(f, "commit", cache_entries)]
        /\ UNCHANGED <<use_enhanced_network, offline_mode, max_cache_size, cache_entries,
                       cache_files, index_file, dest_files, mirrors, stats, now,
                       calls, prev, dm>>

\* Whether a loop that began over seen entries can meet RuntimeError.
LoopOutcomes(seen) ==
    IF Entries(cache_entries) # seen THEN {"done", "RuntimeError"} ELSE {"done"}

\* Lines 348-355: the loop that builds valid_entries and total_size.  The
\* RuntimeError leaves cache_cleanup and is swallowed at line 638.
cleanup_scan(w) ==
    \E o \in LoopOutcomes(thr[w].seen) :
    LET f == thr[w]
        valid == [u \in {v \in DOMAIN cache_entries : cache_files[v].exists} |->
                     [cache_entries[u] EXCEPT !.size = Size(cache_files[u])]]
    IN  /\ f.pc = "cleanup_scan"
        /\ thr' = [thr EXCEPT ![w] =
                     IF o = "RuntimeError" THEN LeaveCommit(f)
                     ELSE [f EXCEPT !.pc = "cleanup_assign", !.snapshot = valid,
                                    !.total = TotalSize(valid), !.seen = 0]]
        /\ UNCHANGED <<use_enhanced_network, offline_mode, max_cache_size, cache_entries,
                       cache_files, index_file, dest_files, mirrors, stats, now,
                       calls, prev, dm>>

\* Lines 358-367: self.cache_entries = valid_entries; return when the total
\* fits, sort otherwise.
cleanup_assign(w) ==
    LET f == thr[w]
    IN  /\ f.pc = "cleanup_assign"
        /\ cache_entries' = f.snapshot
        /\ thr' = [thr EXCEPT ![w] =
                     IF f.total <= max_cache_size
                     THEN EnterSave(f, "commit", f.snapshot)
                     ELSE [f EXCEPT !.pc = "evict", !.order = SortedEntries(f.snapshot)]]
        /\ UNCHANGED <<use_enhanced_network, offline_mode, max_cache_size, cache_files,
                       index_file, dest_files, mirrors, stats, now, calls, prev, dm>>

\* Lines 370-381: one pass of the removal loop.  unlink of a file that is gone
\* and del of a record that is gone raise, and the pass ends at line 379
\* without reaching the break.  After the loop the index is saved.
cleanup_evict(w) ==
    LET f == thr[w]
        u == Head(f.order)
        size == f.snapshot[u].size
        gone == ~cache_files[u].exists
        total == IF gone THEN f.total ELSE f.total - size
        deleted == ~gone /\ u \in DOMAIN cache_entries
        stop == Tail(f.order) = <<>> \/ (deleted /\ total <= max_cache_size)
        left == IF gone THEN cache_entries ELSE Remove(cache_entries, u)
    IN  /\ f.pc = "evict"
        /\ f.order # <<>>
        /\ cache_files' = [cache_files EXCEPT ![u] = Missing]
        /\ cache_entries' = left
        /\ thr' = [thr EXCEPT ![w] =
                     IF stop THEN EnterSave(f, "cleanup", left)
                     ELSE [f EXCEPT !.order = Tail(@), !.total = total]]
        /\ UNCHANGED <<use_enhanced_network, offline_mode, max_cache_size, index_file,
                       dest_files, mirrors, stats, now, calls, prev, dm>>

\* The caller's next statement after _save_cache_index: cache_cleanup returns
\* into _cache_file, whose line 636 saves again; _cache_file returns.
AfterSave(f) ==
    IF f.ret = "cleanup" THEN EnterSave(f, "commit", cache_entries) ELSE LeaveCommit(f)

\* Lines 213-237: the loop that builds cache_data.  The RuntimeError is
\* swallowed at line 242 and nothing is written.
save_snapshot(w) ==
    \E o \in LoopOutcomes(thr[w].seen) :
    LET f == thr[w]
    IN  /\ f.pc = "save"
        /\ thr' = [thr EXCEPT ![w] =
                     IF o = "RuntimeError" THEN AfterSave(f)
                     ELSE [f EXCEPT !.pc = "save_write", !.snapshot = cache_entries,
                                    !.seen = 0]]
        /\ UNCHANGED <<use_enhanced_network, offline_mode, max_cache_size, cache_entries,
                       cache_files, index_file, dest_files, mirrors, stats, now,
                       calls, prev, dm>>

\* Lines 239-240: json.dump(cache_data) over the index file.
save_write(w) ==
    LET f == thr[w]
    IN  /\ f.pc = "save_write"
        /\ index_file' = f.snapshot
        /\ thr' = [thr EXCEPT ![w] = AfterSave(f)]
        /\ UNCHANGED <<use_enhanced_network, offline_mode, max_cache_size, cache_entries,
                       cache_files, dest_files, mirrors, stats, now, calls, prev, dm>>

\* Lines 565-566: count the success and return True.
count_success(w) ==
    LET f == thr[w]
    IN  /\ f.pc = "count"
        /\ stats' = Bump(stats, "downloads_successful")
        /\ thr' = [thr EXCEPT ![w] = Finished(f, "true")]
        /\ UNCHANGED <<use_enhanced_network, offline_mode, max_cache_size, cache_entries,
                       cache_files, index_file, dest_files, mirrors, now, calls, prev, dm>>

\* A budget that holds every entry the cache can ever have.
RoomyBudget == Cardinality(BackgroundUrls) + Cardinality(TaskUrls) * ResLen

\* The caches the two threads start from: empty; or one-byte entries of
\* earlier runs, each read once since, one or two short of the next cleanup,
\* under a budget that holds everything or only what is there already.
Background(n) ==
    [u \in {v \in BackgroundUrls : v <= 10 + n} |->
        [CacheEntry(1, u - 10, NoExpiry) EXCEPT !.access_count = 1,
                                                !.last_accessed = u - 9]]

RaceCaches ==
    {[entries |-> Background(n), budget |-> b] :
        n \in {0, CleanupEvery - 2, CleanupEvery - 1},
        b \in {CleanupEvery, RoomyBudget}}

InitRace ==
    /\ use_enhanced_network = TRUE
    /\ offline_mode = FALSE
    /\ \E c \in RaceCaches :
          /\ cache_entries = c.entries
          /\ cache_files = [u \in Urls |-> IF u \in DOMAIN c.entries
                                           THEN File(<<u>>) ELSE Missing]
          /\ index_file = c.entries
          /\ max_cache_size = c.budget
    /\ dest_files = [u \in TaskUrls |-> Missing]
    /\ mirrors = [n \in MirrorNames |-> Mirror(1)]
    /\ stats = InitStats
    /\ now = Epoch
    /\ thr = [w \in Threads |-> IdleFrame]
    /\ calls = 0
    /\ prev = NoCall
    /\ dm = IdleBatch

NextRace ==
    \/ download_multiple(Batch, MaxConcurrent)
    \/ \E w \in Workers : attempt_load(w)
    \/ \E w \in Workers : attempt_store(w)
    \/ \E w \in Workers : transfer(w)
    \/ \E w \in Workers : commit_put(w)
    \/ \E w \in Workers : commit_check(w)
    \/ \E w \in Workers : cleanup_scan(w)
    \/ \E w \in Workers : cleanup_assign(w)
    \/ \E w \in Workers : cleanup_evict(w)
    \/ \E w \in Workers : save_snapshot(w)
    \/ \E w \in Workers : save_write(w)
    \/ \E w \in Workers : count_success(w)
    \/ \E w \in Workers : worker_done(w)
    \/ collect

SpecRace == InitRace /\ [][NextRace]_vars

\* add_mirror(name, base_url, priority), lines 245-249: the mirror registered
\* under name is a new Mirror, and its health is checked at once.
add_mirror(name, priority) ==
    \E h \in HealthOutcomes :
        /\ thr[Main].pc = "idle"
        /\ calls = 0
        /\ mirrors' = [mirrors EXCEPT ![name] = check_mirror_health(Mirror(priority), h)]
        /\ UNCHANGED <<use_enhanced_network, offline_mode, max_cache_size, cache_entries,
                       cache_files, index_file, dest_files, stats, now, thr, calls,
                       prev, dm>>

\* Failover: the downloader is online and its cache empty; the caller
\* registers mirrors, then downloads url 1 with a retry budget of its choice.
Priorities == {1, 2}

FailoverTasks ==
    [url : {1}, destination : {1}, expected_hash : {NoHash}, resumable : BOOLEAN,
     max_retries : 1..(MaxRetries + 1), mirrors : {<<>>}]

InitFailover ==
    /\ Init
    /\ use_enhanced_network
    /\ ~offline_mode
    /\ cache_entries = NoEntries

NextFailover ==
    \/ \E n \in MirrorNames, p \in Priorities : add_mirror(n, p)
    \/ \E t \in FailoverTasks : Call(t)
    \/ Step(Main)
    \/ Return(Main)

SpecFailover == InitFailover /\ [][NextFailover]_vars

\* The thread that runs download_file keeps running: every session.get ends
\* (timeout=task.timeout) and every sleep is finite.
SpecFailoverFair == SpecFailover /\ WF_vars(Step(Main))

-----------------------------------------------------------------------------
(* Properties of download_file *)

Returned(w) == thr[w].pc = "done"
HashMatches(data, expected_hash) == Lower(Digest(data)) = Lower(expected_hash)
IsProperPrefix(p, d) == Len(p) > 0 /\ Len(p) < Len(d) /\ p = SubSeq(d, 1, Len(p))

\* C1: a call for a task with expected_hash set returns True only if the digest
\* of the file at task.destination equals expected_hash, ignoring case, on
\* every path (offline cache hit, online cache hit, fresh or resumed transfer).
C1_TrueOnlyIfDigestMatches ==
    \A w \in Threads :
        (Returned(w) /\ thr[w].result = "true" /\ thr[w].task.expected_hash # NoHash)
        => /\ dest_files[thr[w].task.destination].exists
           /\ HashMatches(dest_files[thr[w].task.destination].data,
                          thr[w].task.expected_hash)

\* C2: the destination is opened in append mode only if task.resumable holds
\* and the Range request was answered 206; any other status restarts the
\* transfer from offset 0 with the destination truncated.
C2_AppendOnlyAfter206 ==
    \A w \in Threads :
        thr[w].mode = "ab" => thr[w].task.resumable /\ thr[w].range_status = 206

\* C3: after every commit (_cache_file) returns, the sizes of the indexed
\* entries sum to at most max_cache_size.
C3_WithinBudgetAfterCommit ==
    \A w \in Threads :
        (Returned(w) /\ thr[w].committed) => TotalSize(cache_entries) <= max_cache_size

\* C6: when the bytes written do not hash to expected_hash, the call returns
\* False (the fallback of DownloadManager, whose download_file returns a path,
\* raises DownloadError), no file is left at the destination, and the cache
\* entry and cache file of task.url are those the call found.
C6_MismatchRejected ==
    \A w \in Threads :
        LET f == thr[w] IN
        (Returned(w) /\ f.wrote.exists /\ f.task.expected_hash # NoHash
            /\ ~HashMatches(f.wrote.data, f.task.expected_hash))
        => /\ f.result = IF f.path = "fallback" THEN "raised" ELSE "false"
           /\ ~dest_files[f.task.destination].exists
           /\ cache_files[f.task.url] = f.pre_cache_file
           /\ f.task.url \in DOMAIN cache_entries
                => cache_entries[f.task.url].cached_at = f.pre_cached_at

\* A rejected transfer that found the url already cached.
C6_Witness ==
    \E w \in Threads :
        /\ Returned(w) /\ thr[w].wrote.exists /\ thr[w].result = "false"
        /\ thr[w].task.expected_hash # NoHash
        /\ ~HashMatches(thr[w].wrote.data, thr[w].task.expected_hash)
        /\ thr[w].task.url \in DOMAIN cache_entries

\* C7: in offline mode a call returns True only if the cache held a valid entry
\* for task.url, which it copied to the destination; without a valid entry it
\* returns False; either way it sends no HTTP request.
C7_OfflineServesCacheOnly ==
    \A w \in Threads :
        LET f == thr[w] IN
        (offline_mode /\ Returned(w))
        => /\ ~f.requested
           /\ f.result = "true"
                => /\ f.cache_valid
                   /\ dest_files[f.task.destination] = File(f.pre_cache_file.data)
           /\ ~f.cache_valid => f.result = "false"

\* Offline calls of both kinds: served from the cache, and refused while an
\* expired entry for the url is indexed.
C7_WitnessRefused ==
    /\ offline_mode /\ Returned(Main) /\ thr[Main].result = "false"
    /\ thr[Main].task.url \in DOMAIN cache_entries
    /\ cache_files[thr[Main].task.url].exists

C7_Witness ==
    offline_mode /\ Returned(Main) /\ thr[Main].result = "true"

\* The second of two calls with the same task, the first having reported
\* success.
Repeated(w) == Returned(w) /\ prev.valid /\ prev.result = "true" /\ thr[w].task = prev.task

\* C8, as stated: for a task with expected_hash set, once a first call
\* succeeded and populated the cache, a second call made while every network
\* request fails still returns True.
C8_SecondCallSucceedsOffNetwork ==
    (Repeated(Main) /\ prev.committed /\ thr[Main].task.expected_hash # NoHash
        /\ ~thr[Main].got_ok)
    => thr[Main].result = "true"

\* C8, amended: for a task without expected_hash, once a first call succeeded
\* and populated the cache and the entry is still valid, the second call sends
\* no request and returns True with the cached content at the destination
\* (or raises, when the copy to the destination fails); with expected_hash set
\* and the downloader online, a second call whose requests all fail does not
\* return True.
C8_CachedRepeatNeedsNoNetwork ==
    LET f == thr[Main] IN
    /\ (Repeated(Main) /\ prev.committed /\ f.task.expected_hash = NoHash /\ f.cache_valid)
       => /\ ~f.requested
          /\ f.result \in {"true", "raised"}
          /\ f.result = "true"
                => dest_files[f.task.destination] = File(f.pre_cache_file.data)
    /\ (Repeated(Main) /\ prev.committed /\ f.task.expected_hash # NoHash
            /\ ~offline_mode /\ ~f.got_ok)
       => f.result # "true"

C8_Witness ==
    /\ Repeated(Main) /\ prev.committed /\ thr[Main].task.expected_hash = NoHash
    /\ thr[Main].cache_valid /\ thr[Main].result = "true"

\* C9: two successive calls with the same task against an unchanging resource
\* and a working server both return True and leave the same content at the
\* destination.
C9_RepeatIsIdempotent ==
    (Repeated(Main) /\ prev.healthy /\ thr[Main].healthy)
    => /\ thr[Main].result = "true"
       /\ dest_files[thr[Main].task.destination] = prev.dest

\* C10: a destination holding the first N bytes of the resource
\* (0 < N < size), resumed after a 206, ends byte-identical to an uninterrupted
\* download, and the digest that decides the call is the digest of the whole
\* file (prefix and resumed tail).
Uninterrupted(url) == written(Missing, open_mode(0), Resource(url))

C10_ResumeEqualsFullDownload ==
    \A w \in Threads :
        LET f == thr[w] IN
        (Returned(w) /\ f.range_status = 206 /\ f.wrote.exists
            /\ IsProperPrefix(f.pre_dest.data, Resource(f.task.url)))
        => /\ f.wrote = Uninterrupted(f.task.url)
           /\ f.result = "true"
                <=> \/ f.task.expected_hash = NoHash
                    \/ HashMatches(Uninterrupted(f.task.url).data, f.task.expected_hash)
           /\ f.result = "true" => dest_files[f.task.destination] = f.wrote

\* A resumed transfer that verified the whole file, by the enhanced downloader
\* and by the fallback.
C10_Witness ==
    \E w \in Threads :
        /\ Returned(w) /\ thr[w].range_status = 206 /\ thr[w].wrote.exists
        /\ IsProperPrefix(thr[w].pre_dest.data, Resource(thr[w].task.url))
        /\ thr[w].task.expected_hash # NoHash
        /\ thr[w].result = "true"
        /\ thr[w].path = "transfer"

C10_WitnessFallback ==
    /\ Returned(Main) /\ thr[Main].range_status = 206 /\ thr[Main].wrote.exists
    /\ IsProperPrefix(thr[Main].pre_dest.data, Resource(thr[Main].task.url))
    /\ thr[Main].task.expected_hash # NoHash
    /\ thr[Main].result = "true"
    /\ thr[Main].path = "fallback"

\* A transfer that the fallback rejected.
C6_WitnessFallback ==
    /\ Returned(Main) /\ thr[Main].mismatch /\ thr[Main].path = "fallback"

-----------------------------------------------------------------------------
(* Properties of download_multiple *)

BatchOver == dm.pc \in {"returned", "raised"}

\* C4: download_multiple returns a list whose element i is the outcome of
\* tasks[i], for every max_concurrent >= 1 and every order of completion.
C4_ResultsInTaskOrder ==
    dm.pc = "returned"
    => /\ Len(dm.results) = Len(dm.tasks)
       /\ \A i \in 1..Len(dm.tasks) : dm.results[i] = future_result(dm.future[i])

\* C5: for every max_concurrent >= 1, a failure or an exception in one task
\* keeps no other task from being executed, and the call returns one boolean
\* per task.
C5_EveryTaskRunsAndReports ==
    BatchOver
    => /\ dm.pc = "returned"
       /\ Len(dm.results) = Len(dm.tasks)
       /\ \A i \in 1..Len(dm.tasks) : dm.future[i] \in {"true", "false", "raised"}

\* C13: when _cache_file meets an exception (copying into the cache, stat,
\* eviction, writing the index) after the bytes were written and verified, the
\* call still returns True and the destination keeps the file written.
C13_CacheFailureKeepsSuccess ==
    \A w \in Threads :
        LET f == thr[w] IN
        (Returned(w) /\ f.path = "transfer" /\ f.cache_failure # "none")
        => /\ f.result = "true"
           /\ f.wrote.exists
           /\ dest_files[f.task.destination] = f.wrote

\* A verified transfer whose commit failed while evicting.
C13_Witness ==
    \E w \in Threads :
        /\ Returned(w) /\ thr[w].cache_failure = "cleanup" /\ thr[w].result = "true"
        /\ thr[w].task.expected_hash # NoHash

\* C14: when a call fails in the transfer (not in the verification), a
\* resumable task keeps the partial file it had or had begun, and a
\* non-resumable task leaves no file where it had begun to write.
C14_PartialKeptIffResumable ==
    \A w \in Threads :
        LET f == thr[w]
            dest == dest_files[f.task.destination]
        IN  (Returned(w) /\ f.requested /\ f.result # "true" /\ ~f.mismatch)
            => /\ (f.task.resumable /\ (f.pre_dest.exists \/ f.mode # "none"))
                    => dest.exists
               /\ (~f.task.resumable /\ f.mode # "none") => ~dest.exists

\* C15: NetworkResilientDownloader.download_file returns True or False,
\* whatever fails; it never raises.
C15_NeverRaises ==
    \A w \in Threads :
        (Returned(w) /\ thr[w].path # "fallback") => thr[w].result \in {"true", "false"}

\* The download_file invocations that have begun and not yet returned.
InFlight == Cardinality({w \in Threads : thr[w].pc \notin {"idle", "done"}})

\* C12, second half: while download_multiple runs, at most max_concurrent
\* download_file invocations are in flight.
C12_InFlightWithinLimit ==
    dm.pc \in {"sequential", "pool"} => InFlight <= dm.max_concurrent

\* C12: a download_multiple call with max_concurrent below the number of tasks
\* ends with every task executed to its end, and never has more than
\* max_concurrent download_file invocations in flight.
C12_AllCompleteWithinLimit ==
    /\ C12_InFlightWithinLimit
    /\ (BatchOver /\ dm.max_concurrent < Len(dm.tasks))
       => \A i \in 1..Len(dm.tasks) : dm.future[i] \in {"true", "false", "raised"}

-----------------------------------------------------------------------------
(* Properties of _try_mirrors *)

\* C11: when every attempt against the primary URL brought an error status or
\* raised, a mirror then answered 200 and the body was written to the disk,
\* the call returns True with the resource at the destination, and the
\* success_rate of that mirror is higher than when the call began.  (No Mirror
\* stands for the primary URL: there is no success_rate of the primary to
\* compare.)
C11_FailoverRaisesMirrorRate ==
    LET f == thr[Main] IN
    (Returned(Main) /\ f.primary = "transient" /\ f.served_by \in MirrorNames
        /\ f.wrote.exists)
    => /\ f.result = "true"
       /\ dest_files[f.task.destination] = File(Resource(f.task.url))
       /\ RateLess(f.pre_rate[f.served_by], mirrors[f.served_by].success_rate)

\* C20: _try_mirrors leaves a source only after task.max_retries requests to
\* it, or after it answered 404.
C20_LeavesSourceAfterAllRetries ==
    \A w \in Threads :
        thr[w].left_after > 0
        => \/ thr[w].left_after = thr[w].task.max_retries
           \/ thr[w].left_status = 404

-----------------------------------------------------------------------------
(* Properties of cache_cleanup *)

RECURSIVE DiskTotal(_, _)
DiskTotal(files, S) ==
    IF S = {} THEN 0
    ELSE LET u == CHOOSE v \in S : TRUE
         IN  Len(files[u].data) + DiskTotal(files, S \ {u})

\* e1 comes before e2 in ascending (access_count, last_accessed) order.
KeyBefore(e1, e2) ==
    \/ e1.access_count < e2.access_count
    \/ e1.access_count = e2.access_count /\ e1.last_accessed < e2.last_accessed

\* The entries a cache_cleanup call removed although their file was there.
Evicted(f) ==
    {u \in DOMAIN f.pre_entries : f.pre_files[u].exists /\ u \notin DOMAIN cache_entries}

-----------------------------------------------------------------------------
(* Properties of concurrent commits and counters *)

\* The positions of a thread inside _cache_file after its entry was put.
Committing == {"commit_check", "cleanup_scan", "cleanup_assign", "evict", "save",
               "save_write"}

\* C17: while a thread's _cache_file call has put its entry and has not yet
\* returned, no cache_cleanup pass, its own or another thread's, has removed
\* the cache file or the record of that entry.
C17_NoEvictionDuringCommit ==
    \A w \in Workers :
        thr[w].pc \in Committing =>
            /\ thr[w].task.url \in DOMAIN cache_entries
            /\ cache_files[thr[w].task.url].exists

\* C18: after download_multiple has returned from two concurrent downloads
\* into a cache whose budget holds everything, cache_entries and the index
\* file hold the entries of both.
C18_BothCommitsIndexed ==
    (dm.pc = "returned" /\ max_cache_size >= RoomyBudget) =>
        \A i \in 1..Len(dm.tasks) :
            /\ dm.tasks[i].url \in DOMAIN cache_entries
            /\ dm.tasks[i].url \in DOMAIN index_file

\* C19: whenever no thread is between the load and the store of line 454,
\* downloads_attempted is the number of download_file calls made.
C19_NoAttemptLost ==
    (\A w \in Workers : thr[w].pc # "attempted") =>
        stats.downloads_attempted = calls

-----------------------------------------------------------------------------
(* Properties of the sources of a transfer *)

\* C21: once a source has answered 404 in a download_file call, that call
\* sends no further request to it.  For the original URL: after its 404 the
\* call never requests task.url again.
C21_NotFoundIsTerminal ==
    \A w \in Threads : ~thr[w].asked_after_404

\* C22: a transient failure of the original URL (the request raises, or brings
\* a status other than 200 and 404) uses up one attempt and, when another
\* attempt follows, the call has slept 2^attempt_index seconds before it.
C22_BackoffBeforeRetry ==
    \A w \in Threads :
        (thr[w].pc = "primary" /\ thr[w].attempt > 0) =>
            thr[w].backoff = 2 ^ (thr[w].attempt - 1)

\* The step sends a request of _try_mirrors to mirror m.
MirrorAttempt(m) ==
    /\ thr[Main].pc = "mirror"
    /\ thr[Main].to_try # <<>>
    /\ Head(thr[Main].to_try) = m
    /\ thr'[Main].requests = thr[Main].requests + 1

RateEq(a, b) == a[1] * b[2] = b[1] * a[2]

\* C23: each request of _try_mirrors to a mirror adds one to the mirror's
\* total_requests, adds one to successful_requests exactly when the answer is
\* 200, and leaves success_rate = successful_requests / total_requests.
C23_MirrorAttemptCounted ==
    [][\A m \in MirrorNames :
          MirrorAttempt(m) =>
             /\ mirrors'[m].total_requests = mirrors[m].total_requests + 1
             /\ mirrors'[m].successful_requests =
                   mirrors[m].successful_requests + (IF thr'[Main].got_ok THEN 1 ELSE 0)
             /\ RateEq(mirrors'[m].success_rate,
                       <<mirrors'[m].successful_requests, mirrors'[m].total_requests>>)]_vars

\* C28: every mirror has 0 <= successful_requests <= total_requests, and its
\* success_rate lies in [0, 1].
C28_MirrorCountersOrdered ==
    \A m \in MirrorNames :
        /\ 0 <= mirrors[m].successful_requests
        /\ mirrors[m].successful_requests <= mirrors[m].total_requests
        /\ 0 <= mirrors[m].success_rate[1]
        /\ mirrors[m].success_rate[1] <= mirrors[m].success_rate[2]

-----------------------------------------------------------------------------
(* Properties of the cache index *)

Quiet == \A w \in Threads : thr[w].pc \in {"idle", "done"}

\* C24: whenever no call is in progress, whatever the calls so far did to the
\* index (commit, eviction, bookkeeping of a hit, pruning of an entry whose
\* file is gone), the index file holds exactly self.cache_entries.
C24_IndexFileIsIndex ==
    (use_enhanced_network /\ Quiet) => index_file = cache_entries

\* C25: when the constructor has returned and nothing was called yet, the
\* cache file of every indexed entry exists.
C25_LoadedEntriesHaveFiles ==
    (calls = 0 /\ Quiet /\ dm.pc = "idle") =>
        \A u \in DOMAIN cache_entries : cache_files[u].exists

Looked == thr[Main].path = "lookup"

\* C26: get_cached_file(url) returns a path only when url was indexed, its
\* cache file existed and its expires_at, if set, had not passed; a lookup that
\* finds the file of the entry gone leaves url out of the index.
C26_PathOnlyForValidEntry ==
    Looked =>
       LET f == thr[Main]
           u == f.task.url
       IN  /\ f.result = "path" =>
                 /\ u \in DOMAIN f.pre_entries
                 /\ f.pre_files[u].exists
                 /\ \/ f.pre_entries[u].expires_at = NoExpiry
                    \/ now - 1 <= f.pre_entries[u].expires_at
           /\ (u \in DOMAIN f.pre_entries /\ ~f.pre_files[u].exists) =>
                 u \notin DOMAIN cache_entries

\* A path was returned for an entry whose expires_at is set, and another
\* lookup found the file gone.
C26_Witness ==
    /\ Looked
    /\ thr[Main].result = "path"
    /\ thr[Main].pre_entries[thr[Main].task.url].expires_at # NoExpiry
    /\ \E u \in TaskUrls : u \notin DOMAIN cache_entries /\ u \in DOMAIN index_file

\* C27: a call of get_cached_file(url) adds one to cache_hits, to the entry's
\* access_count, and refreshes last_accessed, when a valid entry is found, and
\* adds one to cache_misses otherwise, never both; cache_hits + cache_misses is
\* the number of lookups made.
C27_LookupCountedOnce ==
    [][LET u == thr'[Main].task.url
           valid == ValidEntry(cache_entries, cache_files, now, u)
       IN  /\ stats'.cache_hits = stats.cache_hits + (IF valid THEN 1 ELSE 0)
           /\ stats'.cache_misses = stats.cache_misses + (IF valid THEN 0 ELSE 1)
           /\ valid => /\ cache_entries'[u].access_count = cache_entries[u].access_count + 1
                       /\ cache_entries'[u].last_accessed = now
           /\ stats'.cache_hits + stats'.cache_misses = calls']_vars

\* Lookups of both kinds were made.
C27_Witness ==
    /\ Looked
    /\ calls = MaxLookups
    /\ stats.cache_hits >= 1
    /\ stats.cache_misses >= 1
    /\ \E u \in DOMAIN cache_entries : cache_entries[u].access_count = 2

-----------------------------------------------------------------------------
(* Properties of the statistics and of termination *)

\* C29: whenever no download_file call is in progress,
\* downloads_attempted = downloads_successful + downloads_failed.
C29_AttemptsAreOutcomes ==
    Quiet => stats.downloads_attempted =
                stats.downloads_successful + stats.downloads_failed

InTryMirrors(w) == thr[w].pc \in {"primary", "mirror"}

\* The response is still the one _try_mirrors returned.
HoldsReturned(f) ==
    /\ f.path = "transfer"
    /\ f.pc \in {"range", "write"}
    /\ f.pc = "write" => ~(f.task.resumable /\ f.pre_dest.exists)

\* C30: _try_mirrors sends at most max_retries requests to the original URL
\* plus one per candidate mirror, what it returns is a 200 response or None,
\* and it always returns.
C30_TryMirrorsBounded ==
    \A w \in Threads :
        /\ thr[w].requests <=
              thr[w].task.max_retries + Len(mirrors_to_try(mirrors, thr[w].task))
        /\ HoldsReturned(thr[w]) => thr[w].response.status = 200

C30_TryMirrorsTerminates ==
    /\ []C30_TryMirrorsBounded
    /\ \A w \in Threads : InTryMirrors(w) ~> ~InTryMirrors(w)

\* Every request of the budget was sent: two to the original URL, one to each
\* of the two mirrors, and the last of them served the file.
C30_Witness ==
    /\ thr[Main].pc = "write"
    /\ thr[Main].task.max_retries = MaxRetries + 1
    /\ thr[Main].requests = thr[Main].task.max_retries + Cardinality(MirrorNames)
    /\ thr[Main].response.status = 200

====
